---- MODULE Spec2Model ----
(***************************************************************************)
(* A model of micrograd-rs' engine (src/src/engine.rs): the identifier     *)
(* allocator, the graph builder and its operator sugar, and the runnable   *)
(* graph with forward, backwards, zero_grads, set_input and                *)
(* update_weights; and of its optimisers (src/src/optimiser.rs).           *)
(*                                                                         *)
(* f64 values are modelled as exact rationals <<n, d>> in lowest terms     *)
(* with d > 0.  The scalars the model feeds in are small integers and the  *)
(* only divisor is 2, so every value is a small dyadic rational, which     *)
(* f64 represents exactly: rational arithmetic is f64 arithmetic here.     *)
(***************************************************************************)
EXTENDS Integers, Sequences, FiniteSets, TLC

\* ------------------------------------------------------------------ bounds

\* The allocator issues at most MaxId ids.
MaxId == 3

\* At most MaxOps calls are made on a runnable graph.
MaxOps == 4

\* Calls are made on a runnable graph while every number it stores (input
\* values, node values, gradients) has a numerator and a denominator of
\* magnitude at most MaxAbs.
MaxAbs == 12

\* An optimiser is handed at most MaxParams Data slots, and is constructed
\* for at most MaxParams parameters.
MaxParams == 2

\* At most MaxSteps optimiser steps are taken on one Data array.
MaxSteps == 2

\* ------------------------------------------------------- rational numbers

Abs(n) == IF n < 0 THEN -n ELSE n

RECURSIVE GCD(_, _)
GCD(a, b) == IF b = 0 THEN a ELSE GCD(b, a % b)

\* The rational n/d (d # 0) in lowest terms with a positive denominator.
Rat(n, d) ==
    LET s == IF d < 0 THEN -1 ELSE 1
        g == GCD(Abs(n), Abs(d))
    IN  <<(s * n) \div g, (s * d) \div g>>

R(n) == <<n, 1>>

RAdd(a, b) == Rat(a[1] * b[2] + b[1] * a[2], a[2] * b[2])
RSub(a, b) == Rat(a[1] * b[2] - b[1] * a[2], a[2] * b[2])
RMul(a, b) == Rat(a[1] * b[1], a[2] * b[2])
\* Only used with b # 0: the model's divisors are nonzero scalars.
RDiv(a, b) == Rat(a[1] * b[2], a[2] * b[1])
RLtZero(a) == a[1] < 0
RGtZero(a) == a[1] > 0

\* a to the power of the natural number k (f64 pow with 0^0 = 1).
RECURSIVE RPowNat(_, _)
RPowNat(a, k) == IF k = 0 THEN R(1) ELSE RMul(a, RPowNat(a, k - 1))

\* Only used with an exponent that is a natural number.
RPow(a, b) == RPowNat(a, b[1])

\* ------------------------------------------------------------ input sets

\* Scalars written in builder expressions (create_immediate, + s, * s).
ImmVals == {R(-1), R(2)}
\* Divisors written in `fragment / s` and `s / fragment`.
DivVals == {R(2)}
\* Exponents written in `fragment.pow(s)`.
PowVals == {R(2)}
\* Values written by set_input.
InputVals == {R(-1), R(3)}
\* Seed gradients handed to backwards.
SeedVals == {R(-1), R(2)}
\* Learning rates handed to update_weights.
RateVals == {R(1)}

\* ------------------------------------------------------------ node model

CombineOps == {"Add", "Sub", "Mul"}

OpNode(id) == [kind |-> "OpNode", id |-> id]
InputNode(id) == [kind |-> "InputNode", id |-> id]

\* Node::Operation(GraphBuilderNode { operation, left_id, right_id })
OperationNode(op, l, r) ==
    [type |-> "Operation", operation |-> op, left_id |-> l, right_id |-> r]

\* Node::Immediate(ImmediateNode::new(id, v))
ImmediateNode(id, v) == [type |-> "Immediate", id |-> id, original_value |-> v]

EmptyMap == <<>>

\* HashMap::insert
Insert(m, k, v) == [x \in DOMAIN m \cup {k} |-> IF x = k THEN v ELSE m[x]]

\* HashMap::extend: the entries of m2 win
Extend(m1, m2) ==
    [x \in DOMAIN m1 \cup DOMAIN m2 |-> IF x \in DOMAIN m2 THEN m2[x] ELSE m1[x]]

Fragment(root, nodes, inputs) == [root |-> root, nodes |-> nodes, inputs |-> inputs]

\* ----------------------------------------------------------------- state

VARIABLES
    current_id,   \* IdGenerator.current_id, shared by every fragment
    issued,       \* history: the ids get_id has returned, in order
    frags,        \* the GraphBuilder values the program holds
    phase,        \* "build", "run" (a RunnableGraph exists) or "panicked"
    graph,        \* the RunnableGraph: root, nodes, inputs, data
    ops,          \* number of calls made on the runnable graph
    before,       \* history: the RunnableGraph as the last call found it
    fresh,        \* history: what forward returned, if no set_input or
                  \* update_weights came after it
    last,         \* history: the last call, its arguments and its outcome
    written,      \* history: the scalar division the builder was last asked for
    optimiser,    \* the AdamOptimiser: m, v and t
    params,       \* the Vec<Data> the optimisers are handed
    opt_last      \* history: the last optimise call and what it was handed

optvars == <<optimiser, params, opt_last>>

vars == <<current_id, issued, frags, phase, graph, ops, before, fresh, last, written,
          optimiser, params, opt_last>>

NoGraph == [root |-> OpNode(0), nodes |-> EmptyMap, inputs |-> EmptyMap, data |-> EmptyMap]

\* ------------------------------------------------------------- allocator

\* A faulty variant of get_id: the counter is returned without being advanced.
GetIdStale(cur) == [id |-> cur, cur |-> cur]

\* IdGenerator::get_id: advance the counter and return it.
GetId(cur) == [id |-> cur + 1, cur |-> cur + 1]

\* --------------------------------------------------------------- builder
\* Every builder function is pure but for the allocator: it takes the
\* counter and returns the new fragment, the counter and the ids issued.

Built(frag, cur, ids) == [frag |-> frag, cur |-> cur, ids |-> ids]

\* GraphBuilder::new
NewBuilder == Fragment(OpNode(0), EmptyMap, EmptyMap)

\* GraphBuilder::create_immediate
CreateImmediateFn(self, val, cur) ==
    LET a == GetId(cur)
    IN  Built(Fragment(OpNode(a.id), Insert(EmptyMap, a.id, ImmediateNode(a.id, val)), EmptyMap),
              a.cur, <<a.id>>)

\* GraphBuilder::create_input
CreateInputFn(self, cur) ==
    LET a == GetId(cur)
    IN  Built(Fragment(InputNode(a.id), self.nodes, Insert(self.inputs, a.id, R(0))),
              a.cur, <<a.id>>)

\* GraphBuilder::combine
CombineFn(op, left, right, cur) ==
    LET a == GetId(cur)
        nodes == Insert(Extend(left.nodes, right.nodes), a.id,
                        OperationNode(op, left.root, right.root))
    IN  Built(Fragment(OpNode(a.id), nodes, Extend(left.inputs, right.inputs)),
              a.cur, <<a.id>>)

\* A faulty variant of with_immediate: the root's id is allocated before the
\* immediate's, so the root's right operand has the larger id.
WithImmediateRootFirst(op, left, right_val, cur) ==
    LET r == GetId(cur)
        a == GetId(r.cur)
        nodes == Insert(Insert(left.nodes, a.id, ImmediateNode(a.id, right_val)), r.id,
                        OperationNode(op, left.root, OpNode(a.id)))
    IN  Built(Fragment(OpNode(r.id), nodes, left.inputs), a.cur, <<r.id, a.id>>)

\* GraphBuilder::with_immediate
WithImmediateFn(op, left, right_val, cur) ==
    LET a == GetId(cur)
        r == GetId(a.cur)
        nodes == Insert(Insert(left.nodes, a.id, ImmediateNode(a.id, right_val)), r.id,
                        OperationNode(op, left.root, OpNode(a.id)))
    IN  Built(Fragment(OpNode(r.id), nodes, left.inputs), r.cur, <<a.id, r.id>>)

\* GraphBuilder::with_immediate2
WithImmediate2Fn(op, left_val, right, cur) ==
    LET a == GetId(cur)
        r == GetId(a.cur)
        nodes == Insert(Insert(right.nodes, a.id, ImmediateNode(a.id, left_val)), r.id,
                        OperationNode(op, OpNode(a.id), right.root))
    IN  Built(Fragment(OpNode(r.id), nodes, right.inputs), r.cur, <<a.id, r.id>>)

\* GraphBuilder::relu
ReluFn(self, cur) == WithImmediateFn("Relu", self, R(0), cur)

\* What `written` records: the form of the expression, its scalar, the
\* fragment it was applied to and the fragment it returned.
Expr(form, scalar, operand, result) ==
    [form |-> form, scalar |-> scalar, operand |-> operand, result |-> result]

NoExpr == Expr("none", R(0), NewBuilder, NewBuilder)

\* The program keeps the fragment a builder call returned.
KeepAs(b, expr) ==
    /\ current_id' = b.cur
    /\ issued' = issued \o b.ids
    /\ frags' = frags \cup {b.frag}
    /\ written' = expr
    /\ UNCHANGED <<phase, graph, ops, before, fresh, last>>
    /\ UNCHANGED optvars

Keep(b) == KeepAs(b, NoExpr)

Building(n) == phase = "build" /\ current_id + n <= MaxId

CreateInput ==
    /\ Building(1)
    /\ \E f \in frags : Keep(CreateInputFn(f, current_id))

CreateImmediate ==
    /\ Building(1)
    /\ \E f \in frags, v \in ImmVals : Keep(CreateImmediateFn(f, v, current_id))

\* fragment + fragment, fragment - fragment, fragment * fragment
Combine ==
    /\ Building(1)
    /\ \E op \in CombineOps, l \in frags, r \in frags : Keep(CombineFn(op, l, r, current_id))

\* fragment + s, s + fragment, fragment * s, s * fragment
WithScalar ==
    /\ Building(2)
    /\ \E op \in {"Add", "Mul"}, f \in frags, v \in ImmVals :
          Keep(WithImmediateFn(op, f, v, current_id))

\* Div<f64> for &GraphBuilder
DivFn(self, rhs, cur) == WithImmediateFn("Div", self, rhs, cur)

\* Div<&GraphBuilder> for f64: self is the scalar, rhs the fragment.
ScalarDivFn(self, rhs, cur) == WithImmediateFn("Div", rhs, self, cur)

\* &fragment / s
DivScalar ==
    /\ Building(2)
    /\ \E f \in frags, v \in DivVals :
          LET b == DivFn(f, v, current_id)
          IN  KeepAs(b, Expr("f / s", v, f, b.frag))

\* s / &fragment
ScalarDiv ==
    /\ Building(2)
    /\ \E f \in frags, v \in DivVals :
          LET b == ScalarDivFn(v, f, current_id)
          IN  KeepAs(b, Expr("s / f", v, f, b.frag))

\* fragment.pow(s)
PowScalar ==
    /\ Building(2)
    /\ \E f \in frags, v \in PowVals : Keep(WithImmediateFn("Pow", f, v, current_id))

\* -&input
Neg ==
    /\ Building(2)
    /\ \E f \in frags :
          /\ f.root.kind = "InputNode"
          /\ Keep(WithImmediate2Fn("Sub", R(0), f, current_id))

Relu ==
    /\ Building(2)
    /\ \E f \in frags : Keep(ReluFn(f, current_id))

\* -------------------------------------------------------- runnable graph

\* Data::new
DataNew(v) == [value |-> v, gradient |-> R(0)]

\* The result of a call that may panic: the graph as the call left it,
\* whether it returned, why it did not, and the value it returned.
Ret(g, v) == [g |-> g, ok |-> TRUE, why |-> "", value |-> v]
Panic(g, why) == [g |-> g, ok |-> FALSE, why |-> why, value |-> R(0)]

\* GraphBuilder::make: the data map starts empty.
MakeFn(self) ==
    [root |-> self.root, nodes |-> self.nodes, inputs |-> self.inputs, data |-> EmptyMap]

\* A faulty variant of set_input: the value is inserted whether or not the key exists.
SetInputInsert(g, inp, val) == Ret([g EXCEPT !.inputs = Insert(g.inputs, inp, val)], R(0))

\* RunnableGraph::set_input: get_mut(..).unwrap() panics before any write.
SetInputFn(g, inp, val) ==
    IF inp \in DOMAIN g.inputs
    THEN Ret([g EXCEPT !.inputs = [g.inputs EXCEPT ![inp] = val]], R(0))
    ELSE Panic(g, "unwrap")

\* RunnableGraph::update_data_value
UpdateDataValue(g, id, v) ==
    IF id \in DOMAIN g.data
    THEN [g EXCEPT !.data = [g.data EXCEPT ![id] = [@ EXCEPT !.value = v]]]
    ELSE [g EXCEPT !.data = Insert(g.data, id, DataNew(v))]

\* A faulty variant of the operator table: Sub subtracts the wrong way round.
ApplyOpSubSwapped(op, left_val, right_val) ==
    CASE op = "Mul" -> RMul(left_val, right_val)
      [] op = "Add" -> RAdd(left_val, right_val)
      [] op = "Sub" -> RSub(right_val, left_val)
      [] op = "Div" -> RDiv(left_val, right_val)
      [] op = "Pow" -> RPow(left_val, right_val)
      [] op = "Relu" -> IF RLtZero(left_val) THEN R(0) ELSE left_val

\* The match on n.operation in get_value_for_node.
ApplyOp(op, left_val, right_val) ==
    CASE op = "Mul" -> RMul(left_val, right_val)
      [] op = "Add" -> RAdd(left_val, right_val)
      [] op = "Sub" -> RSub(left_val, right_val)
      [] op = "Div" -> RDiv(left_val, right_val)
      [] op = "Pow" -> RPow(left_val, right_val)
      [] op = "Relu" -> IF RLtZero(left_val) THEN R(0) ELSE left_val

\* A graph may carry a log of what a call did to it, for the claims about
\* the order of a call's steps: Traced starts the log, Note(g, e) adds event
\* e to it if g carries one, and Untraced is the graph alone.
Traced(g) ==
    [root |-> g.root, nodes |-> g.nodes, inputs |-> g.inputs, data |-> g.data, trace |-> <<>>]
Untraced(g) == [root |-> g.root, nodes |-> g.nodes, inputs |-> g.inputs, data |-> g.data]
Trace(g) == IF "trace" \in DOMAIN g THEN g.trace ELSE <<>>
Note(g, e) == IF "trace" \in DOMAIN g THEN [g EXCEPT !.trace = Append(@, e)] ELSE g

RECURSIVE GetNodeValue(_, _)
RECURSIVE GetValueForNode(_, _)

\* RunnableGraph::get_node_value
GetNodeValue(g, ref) ==
    IF ref.kind = "InputNode"
    THEN IF ref.id \in DOMAIN g.inputs
         THEN Ret(g, g.inputs[ref.id])
         ELSE Panic(g, "no input node")
    ELSE IF ref.id \notin DOMAIN g.nodes
         THEN Panic(g, "no operation node")
         ELSE LET r == GetValueForNode(g, g.nodes[ref.id])
              IN  IF r.ok
                  THEN Ret(UpdateDataValue(Note(r.g, <<"value", ref.id>>), ref.id, r.value),
                           r.value)
                  ELSE r

\* A faulty variant of get_value_for_node: an Immediate is read from its
\* construction-time payload whether or not it has a slot.
GetValueForNodePayload(g, node) ==
    IF node.type = "Operation"
    THEN LET l == GetNodeValue(g, node.left_id)
         IN  IF ~l.ok THEN l
             ELSE LET r == GetNodeValue(l.g, node.right_id)
                  IN  IF ~r.ok THEN r
                      ELSE Ret(r.g, ApplyOp(node.operation, l.value, r.value))
    ELSE Ret(UpdateDataValue(g, node.id, node.original_value), node.original_value)

\* RunnableGraph::get_value_for_node
GetValueForNode(g, node) ==
    IF node.type = "Operation"
    THEN LET l == GetNodeValue(g, node.left_id)
         IN  IF ~l.ok THEN l
             ELSE LET r == GetNodeValue(l.g, node.right_id)
                  IN  IF ~r.ok THEN r
                      ELSE Ret(r.g, ApplyOp(node.operation, l.value, r.value))
    ELSE LET value == IF node.id \in DOMAIN g.data
                      THEN g.data[node.id].value
                      ELSE node.original_value
         IN  Ret(UpdateDataValue(g, node.id, value), value)

\* RunnableGraph::forward
ForwardFn(g) == GetNodeValue(g, g.root)

\* RunnableGraph::value_for_id: both arms unwrap.
ValueForId(g, ref) ==
    IF ref.kind = "InputNode"
    THEN IF ref.id \in DOMAIN g.inputs THEN Ret(g, g.inputs[ref.id]) ELSE Panic(g, "unwrap")
    ELSE IF ref.id \in DOMAIN g.data THEN Ret(g, g.data[ref.id].value) ELSE Panic(g, "unwrap")

\* `data.gradient += d` in update
AddGradient(g, id, d) ==
    [g EXCEPT !.data = [g.data EXCEPT ![id] = [@ EXCEPT !.gradient = RAdd(@, d)]]]

\* RunnableGraph::update
Update(g, id, operation, root_value, root_grad, other_value) ==
    IF id.kind # "OpNode" THEN Ret(g, R(0))
    ELSE IF id.id \notin DOMAIN g.data THEN Panic(g, "unwrap")
    ELSE CASE operation = "Add" -> Ret(AddGradient(g, id.id, root_grad), R(0))
           [] operation = "Mul" -> Ret(AddGradient(g, id.id, RMul(other_value, root_grad)), R(0))
           [] operation = "Relu" ->
                Ret(AddGradient(g, id.id,
                       RMul(IF RGtZero(root_value) THEN R(1) ELSE R(0), root_grad)), R(0))
           [] OTHER -> Panic(g, "todo")

RECURSIVE BackwardsRec(_, _)

\* RunnableGraph::_backwards
BackwardsRec(g, id) ==
    LET rv == ValueForId(g, id)
    IN  IF ~rv.ok THEN rv
        ELSE IF id.kind # "OpNode" THEN Ret(g, R(0))
        ELSE IF id.id \notin DOMAIN g.nodes THEN Panic(g, "unwrap")
        ELSE LET node == g.nodes[id.id]
                 root_grad == g.data[id.id].gradient
             IN  IF node.type # "Operation" THEN Ret(g, R(0))
                 ELSE LET right_value == ValueForId(g, node.right_id)
                      IN  IF ~right_value.ok THEN right_value
                          ELSE LET u1 == Update(Note(g, <<"update", id.id, "left">>),
                                                node.left_id, node.operation, rv.value,
                                                root_grad, right_value.value)
                               IN  IF ~u1.ok THEN u1
                                   ELSE LET b1 == BackwardsRec(u1.g, node.left_id)
                                        IN  IF ~b1.ok THEN b1
                                            ELSE LET left_value == ValueForId(b1.g, node.left_id)
                                                     u2 == Update(Note(b1.g, <<"update", id.id, "right">>),
                                                                  node.right_id,
                                                                  node.operation, rv.value,
                                                                  root_grad, left_value.value)
                                                 IN  IF ~left_value.ok THEN left_value
                                                     ELSE IF ~u2.ok THEN u2
                                                     ELSE BackwardsRec(u2.g, node.right_id)

\* RunnableGraph::backwards
BackwardsFn(g, out_grad) ==
    LET rv == ValueForId(g, g.root)
    IN  IF ~rv.ok THEN rv
        ELSE IF g.root.id \notin DOMAIN g.nodes THEN Panic(g, "unwrap")
        ELSE IF g.nodes[g.root.id].type # "Operation" THEN Panic(g, "unwrap")
        ELSE LET u == Update(g, g.root, g.nodes[g.root.id].operation, rv.value, out_grad, R(0))
             IN  IF ~u.ok THEN u ELSE BackwardsRec(u.g, g.root)

\* A faulty variant of zero_grads: only the root's gradient is reset.
ZeroGradsRootOnly(g) ==
    [g EXCEPT !.data = [id \in DOMAIN g.data |->
        IF id = g.root.id THEN [g.data[id] EXCEPT !.gradient = R(0)] ELSE g.data[id]]]

\* A faulty variant of zero_grads: every slot is replaced by a new one, value and all.
ZeroGradsWholeSlot(g) == [g EXCEPT !.data = [id \in DOMAIN g.data |-> DataNew(R(0))]]

\* RunnableGraph::zero_grads
ZeroGradsFn(g) ==
    [g EXCEPT !.data = [id \in DOMAIN g.data |-> [g.data[id] EXCEPT !.gradient = R(0)]]]

\* A faulty variant of update_weights: the step also resets the gradient.
UpdateWeightsResetting(g, learning_rate) ==
    [g EXCEPT !.data = [id \in DOMAIN g.data |->
        [value |-> RSub(g.data[id].value, RMul(learning_rate, g.data[id].gradient)),
         gradient |-> R(0)]]]

\* LearningRateOptimiser::new
LearningRateOptimiserNew(learning_rate) == [learning_rate |-> learning_rate]

\* LearningRateOptimiser::optimise, on any collection of Data.
LearningRateOptimiseFn(self, data) ==
    [i \in DOMAIN data |->
        [data[i] EXCEPT !.value = RSub(@, RMul(self.learning_rate, data[i].gradient))]]

\* RunnableGraph::update_weights
UpdateWeightsFn(g, learning_rate) ==
    [g EXCEPT !.data = [id \in DOMAIN g.data |->
        [g.data[id] EXCEPT !.value = RSub(@, RMul(learning_rate, g.data[id].gradient))]]]

\* ------------------------------------------------------------ optimisers
\* (src/src/optimiser.rs)

\* The constants of AdamOptimiser that enter m and v.  ALPHA and EPSILON
\* enter the step only, which is kept as a term (AdamStep).
BETA_1 == Rat(9, 10)
BETA_2 == Rat(999, 1000)

\* A Data slot in the Vec<Data> an optimiser is handed.  The square roots of
\* an Adam step have no rational value, so the f64 such a slot holds is kept
\* in two parts: it is `value` minus the Adam steps listed in `adam`.
OptData(value, gradient) == [value |-> value, gradient |-> gradient, adam |-> <<>>]

\* The step alpha * m / (v.sqrt() + EPSILON) of Adam's t-th call, with
\* alpha = ALPHA * (1 - BETA_2^t).sqrt() / (1 - BETA_1^t), as a term.
AdamStep(m, v, t) == <<m, v, t>>

\* `d.value -= step`: the step is 0. exactly when m is, and then the value
\* is left as it was.
SubAdamStep(d, m, v, t) ==
    IF m = R(0) THEN d ELSE [d EXCEPT !.adam = Append(@, AdamStep(m, v, t))]

\* AdamOptimiser::new
AdamOptimiserNew(num_params) ==
    [m |-> [i \in 1..num_params |-> R(0)], v |-> [i \in 1..num_params |-> R(0)], t |-> 0]

\* The number of items zip(zip(m, v), data) yields: it stops with the
\* shortest of the three.
ZipLen(m, v, data) ==
    LET Least(a, b) == IF a <= b THEN a ELSE b
    IN  Least(Least(Len(m), Len(v)), Len(data))

\* AdamOptimiser::optimise: the optimiser and the array as the call leaves
\* them.  Nothing in it can panic.
AdamOptimiseFn(self, data) ==
    LET t == self.t + 1
        n == ZipLen(self.m, self.v, data)
        m == [i \in 1..Len(self.m) |->
                 IF i <= n
                 THEN RAdd(RMul(BETA_1, self.m[i]),
                           RMul(RSub(R(1), BETA_1), data[i].gradient))
                 ELSE self.m[i]]
        v == [i \in 1..Len(self.v) |->
                 IF i <= n
                 THEN RAdd(RMul(BETA_2, self.v[i]),
                           RMul(RSub(R(1), BETA_2), RPow(data[i].gradient, R(2))))
                 ELSE self.v[i]]
    IN  [ok |-> TRUE,
         self |-> [m |-> m, v |-> v, t |-> t],
         data |-> [i \in 1..Len(data) |->
                      IF i <= n THEN SubAdamStep(data[i], m[i], v[i], t) ELSE data[i]]]

\* ----------------------------------------------------------------- calls

AllZero(g) == \A id \in DOMAIN g.data : g.data[id].gradient = R(0)

NotFresh == [valid |-> FALSE, value |-> R(0)]

\* What `last` records of a call: its name and arguments, whether it
\* returned, the value it returned, what `fresh` was when it was made, and
\* the log of its steps if one was kept.
Call(op, id, arg, r) ==
    [op |-> op, id |-> id, arg |-> arg, ok |-> r.ok, why |-> r.why, value |-> r.value,
     fresh |-> fresh, trace |-> Trace(r.g)]

Small(x) == Abs(x[1]) <= MaxAbs /\ x[2] <= MaxAbs

Bounded(g) ==
    /\ \A id \in DOMAIN g.inputs : Small(g.inputs[id])
    /\ \A id \in DOMAIN g.data : Small(g.data[id].value) /\ Small(g.data[id].gradient)

Running == phase = "run" /\ ops < MaxOps /\ Bounded(graph)

\* A call on the runnable graph returns or panics; a panic ends the run.
Called(op, id, arg, r, fr) ==
    /\ graph' = Untraced(r.g)
    /\ phase' = IF r.ok THEN "run" ELSE "panicked"
    /\ ops' = ops + 1
    /\ before' = graph
    /\ fresh' = fr
    /\ last' = Call(op, id, arg, r)
    /\ UNCHANGED <<current_id, issued, frags, written>>
    /\ UNCHANGED optvars

Make ==
    /\ phase = "build"
    /\ \E f \in frags :
          /\ graph' = MakeFn(f)
          /\ phase' = "run"
          /\ before' = MakeFn(f)
          /\ frags' = {}
          /\ written' = NoExpr
          /\ UNCHANGED <<current_id, issued, ops, fresh, last>>
          /\ UNCHANGED optvars

\* The callers pass any NodeId they hold: an input's, another node's, or none's.
SetInput ==
    /\ Running
    /\ \E inp \in 0..current_id, val \in InputVals :
          Called("set_input", inp, val, SetInputFn(graph, inp, val), NotFresh)

Forward ==
    /\ Running
    /\ LET r == ForwardFn(Traced(graph))
       IN  Called("forward", 0, R(0), r, [valid |-> r.ok, value |-> r.value])

Backwards ==
    /\ Running
    /\ \E out_grad \in SeedVals :
          Called("backwards", 0, out_grad, BackwardsFn(Traced(graph), out_grad), fresh)

ZeroGrads ==
    /\ Running
    /\ Called("zero_grads", 0, R(0), Ret(ZeroGradsFn(graph), R(0)), fresh)

UpdateWeights ==
    /\ Running
    /\ \E lr \in RateVals :
          Called("update_weights", 0, lr, Ret(UpdateWeightsFn(graph, lr), R(0)), NotFresh)

\* ---- calls on an optimiser

\* Starting values and gradients of the slots handed to an optimiser.
ParamVals == {R(0), R(2)}
GradVals == {R(-1), R(0), R(2)}

enginevars == <<current_id, issued, frags, phase, graph, ops, before, fresh, last, written>>

NoOptCall == [op |-> "none", ok |-> TRUE, self |-> AdamOptimiserNew(0), data |-> <<>>, calls |-> 0]

\* What opt_last records of an optimise call: which optimiser, whether it
\* returned, and the optimiser and the array it found.
OptCalled(op, ok) ==
    opt_last' = [op |-> op, ok |-> ok, self |-> optimiser, data |-> params,
                 calls |-> opt_last.calls + 1]

AdamOptimise ==
    /\ opt_last.calls < MaxSteps
    /\ LET r == AdamOptimiseFn(optimiser, params)
       IN  /\ optimiser' = r.self
           /\ params' = r.data
           /\ OptCalled("adam", r.ok)
    /\ UNCHANGED enginevars

LearningRateOptimise ==
    /\ opt_last.calls < MaxSteps
    /\ \E lr \in RateVals :
          params' = LearningRateOptimiseFn(LearningRateOptimiserNew(lr), params)
    /\ OptCalled("rate", TRUE)
    /\ UNCHANGED optimiser
    /\ UNCHANGED enginevars

\* Between two steps the training loop's zero_grads and backward leave new
\* gradients in the slots.
WriteGradients ==
    /\ opt_last.op \in {"adam", "rate"}
    /\ opt_last.calls < MaxSteps
    /\ \E grads \in [1..Len(params) -> GradVals] :
          params' = [i \in 1..Len(params) |-> [params[i] EXCEPT !.gradient = grads[i]]]
    /\ opt_last' = [opt_last EXCEPT !.op = "grads"]
    /\ UNCHANGED optimiser
    /\ UNCHANGED enginevars

Init ==
    /\ current_id = 0
    /\ issued = <<>>
    /\ frags = {NewBuilder}
    /\ phase = "build"
    /\ graph = NoGraph
    /\ ops = 0
    /\ before = NoGraph
    /\ fresh = NotFresh
    /\ last = [op |-> "none", id |-> 0, arg |-> R(0), ok |-> TRUE, why |-> "",
               value |-> R(0), fresh |-> NotFresh, trace |-> <<>>]
    /\ written = NoExpr
    /\ optimiser = AdamOptimiserNew(0)
    /\ params = <<>>
    /\ opt_last = NoOptCall

\* An AdamOptimiser constructed for some number of parameters, and some
\* Vec<Data> of the caller's.
InitOptimiser ==
    /\ current_id = 0
    /\ issued = <<>>
    /\ frags = {NewBuilder}
    /\ phase = "build"
    /\ graph = NoGraph
    /\ ops = 0
    /\ before = NoGraph
    /\ fresh = NotFresh
    /\ last = [op |-> "none", id |-> 0, arg |-> R(0), ok |-> TRUE, why |-> "",
               value |-> R(0), fresh |-> NotFresh, trace |-> <<>>]
    /\ written = NoExpr
    /\ \E num_params \in 0..MaxParams : optimiser = AdamOptimiserNew(num_params)
    /\ \E len \in 0..MaxParams :
          params \in [1..len -> {OptData(v, g) : v \in ParamVals, g \in GradVals}]
    /\ opt_last = NoOptCall

NextBuild ==
    \/ CreateInput
    \/ CreateImmediate
    \/ Combine
    \/ WithScalar
    \/ DivScalar
    \/ ScalarDiv
    \/ PowScalar
    \/ Neg
    \/ Relu

Next ==
    \/ NextBuild
    \/ Make
    \/ SetInput
    \/ Forward
    \/ Backwards
    \/ ZeroGrads
    \/ UpdateWeights

NextOptimiser ==
    \/ AdamOptimise
    \/ LearningRateOptimise
    \/ WriteGradients

\* The builder alone.
SpecBuild == Init /\ [][NextBuild]_vars

\* The builder, then one runnable graph and the calls made on it.
Spec == Init /\ [][Next]_vars

\* The optimisers alone, on a Vec<Data> of the caller's.
SpecOptimiser == InitOptimiser /\ [][NextOptimiser]_vars

\* ================================================================ claims

IsOperation(nodes, id) == id \in DOMAIN nodes /\ nodes[id].type = "Operation"
IsImmediate(nodes, id) == id \in DOMAIN nodes /\ nodes[id].type = "Immediate"

\* C1: in every fragment the builder has produced, every Operation node's
\* left and right operand ids are strictly less than the node's own id.
C1_TopologicalInvariant ==
    \A f \in frags : \A id \in DOMAIN f.nodes :
        f.nodes[id].type = "Operation" =>
            /\ f.nodes[id].left_id.id < id
            /\ f.nodes[id].right_id.id < id

\* A fragment whose root is an Operation over two different nodes that both
\* exist, made while the allocator had served another fragment as well.
C1_Witness ==
    \E f \in frags :
        /\ IsOperation(f.nodes, f.root.id)
        /\ f.nodes[f.root.id].left_id.id >= 1
        /\ f.nodes[f.root.id].right_id.id >= 1
        /\ f.nodes[f.root.id].left_id.id # f.nodes[f.root.id].right_id.id
        /\ Cardinality(frags) >= 3

\* C2: get_id never returns an id twice: the ids issued are strictly
\* increasing, so an id denotes one node only, in whichever fragments it
\* appears: the same node in every node map, and never an input too.
C2_FreshIds ==
    /\ \A i, j \in 1..Len(issued) : i < j => issued[i] < issued[j]
    /\ \A f1, f2 \in frags :
          /\ \A id \in DOMAIN f1.nodes \cap DOMAIN f2.nodes : f1.nodes[id] = f2.nodes[id]
          /\ DOMAIN f1.nodes \cap DOMAIN f2.inputs = {}

\* Ids were issued to calls on different fragments, and one node is held by
\* two fragments with different roots.
C2_Witness ==
    /\ Len(issued) = MaxId
    /\ \E f1, f2 \in frags :
          /\ f1.root # f2.root
          /\ DOMAIN f1.nodes \cap DOMAIN f2.nodes # {}
          /\ DOMAIN f1.inputs # {}

\* ---- the reference semantics the claims compare the code with

\* The reference operators: Add l + r, Sub l - r, Mul l * r, Div l / r,
\* Pow l^r, Relu max(l, 0) ignoring r.
RefOp(op, l, r) ==
    IF op = "Add" THEN RAdd(l, r)
    ELSE IF op = "Sub" THEN RSub(l, r)
    ELSE IF op = "Mul" THEN RMul(l, r)
    ELSE IF op = "Div" THEN RDiv(l, r)
    ELSE IF op = "Pow" THEN RPow(l, r)
    ELSE IF RGtZero(l) THEN l ELSE R(0)

Def(v) == [def |-> TRUE, v |-> v]
Undef == [def |-> FALSE, v |-> R(0)]

Max(S) == CHOOSE x \in S : \A y \in S : y <= x
MaxNodeId(g) == Max(DOMAIN g.nodes \cup DOMAIN g.inputs \cup {0})

Operand(tbl, ref) == IF ref.id \in DOMAIN tbl THEN tbl[ref.id] ELSE Undef

\* The current value of an Immediate: its slot's, or its payload before
\* the first evaluation gives it a slot.
ImmediateValue(g, id) ==
    IF id \in DOMAIN g.data THEN g.data[id].value ELSE g.nodes[id].original_value

\* The value of node k, given the values of the nodes below k.
RefEntry(g, k, tbl) ==
    IF k \in DOMAIN g.inputs THEN Def(g.inputs[k])
    ELSE IF k \notin DOMAIN g.nodes THEN Undef
    ELSE IF g.nodes[k].type = "Immediate" THEN Def(ImmediateValue(g, k))
    ELSE LET l == Operand(tbl, g.nodes[k].left_id)
             r == Operand(tbl, g.nodes[k].right_id)
         IN  IF l.def /\ r.def THEN Def(RefOp(g.nodes[k].operation, l.v, r.v)) ELSE Undef

\* One sweep over the ids in increasing order, bottom-up.
RECURSIVE RefSweep(_, _, _)
RefSweep(g, k, tbl) ==
    IF k > MaxNodeId(g) THEN tbl ELSE RefSweep(g, k + 1, Insert(tbl, k, RefEntry(g, k, tbl)))

RefValues(g) == RefSweep(g, 1, EmptyMap)

\* The value of the root expression; undefined when the expression refers
\* to a node that does not exist (the root of GraphBuilder::new).
RefRoot(g) == Operand(RefValues(g), g.root)

\* The operand slots of Operation nodes that refer to node id.
Uses(g, id) ==
    {<<p, side>> \in (DOMAIN g.nodes) \X {"left", "right"} :
        /\ g.nodes[p].type = "Operation"
        /\ (IF side = "left" THEN g.nodes[p].left_id ELSE g.nodes[p].right_id).id = id}

\* C3: forward returns the value of the root expression computed bottom-up
\* with the reference operators on the current input and immediate values;
\* it fails only when the root expression refers to a node that is not there.
C3_ForwardCorrect ==
    last.op = "forward" =>
        LET ref == RefRoot(before)
        IN  /\ last.ok = ref.def
            /\ last.ok => last.value = ref.v

\* forward returned a nonzero value for a graph in which an Operation node
\* is used twice and an input that was set is used twice.
C3_Witness ==
    /\ last.op = "forward" /\ last.ok /\ last.value # R(0)
    /\ \E id \in DOMAIN before.nodes :
          IsOperation(before.nodes, id) /\ Cardinality(Uses(before, id)) >= 2
    /\ \E id \in DOMAIN before.inputs :
          before.inputs[id] # R(0) /\ Cardinality(Uses(before, id)) >= 2

\* The ids of the nodes on a path from the root, the root included.
RECURSIVE ReachFrom(_, _)
ReachFrom(g, S) ==
    LET T == S \cup UNION {{g.nodes[id].left_id.id, g.nodes[id].right_id.id} :
                              id \in {x \in S : IsOperation(g.nodes, x)}}
    IN  IF T = S THEN S ELSE ReachFrom(g, T)

Reach(g) == ReachFrom(g, {g.root.id})

\* The operations of the Operation nodes on a path from the root.
OpsUsed(g) == {g.nodes[id].operation : id \in {x \in Reach(g) : IsOperation(g.nodes, x)}}

Differentiable == {"Add", "Mul", "Relu"}

\* The graph was built solely from Add, Mul and Relu.
OnlyAddMulRelu(g) ==
    \A id \in DOMAIN g.nodes : g.nodes[id].type = "Operation" =>
        g.nodes[id].operation \in Differentiable

\* The reference reverse sweep: the derivative of the output with respect to
\* every node, times the seed.  G holds the sum over the paths seen so far;
\* node k hands its total to its operands by the local rule of its operation.
AddAt(G, id, d) == [G EXCEPT ![id] = RAdd(@, d)]

RefLocal(g, vals, k, G) ==
    LET n == g.nodes[k]
        l == n.left_id.id
        r == n.right_id.id
    IN  IF n.operation = "Add" THEN AddAt(AddAt(G, l, G[k]), r, G[k])
        ELSE IF n.operation = "Mul"
             THEN AddAt(AddAt(G, l, RMul(vals[r].v, G[k])), r, RMul(vals[l].v, G[k]))
        ELSE IF RGtZero(vals[l].v) THEN AddAt(G, l, G[k]) ELSE G

RECURSIVE RefGradSweep(_, _, _, _)
RefGradSweep(g, vals, k, G) ==
    IF k < 1 THEN G
    ELSE RefGradSweep(g, vals, k - 1,
                      IF IsOperation(g.nodes, k) THEN RefLocal(g, vals, k, G) ELSE G)

RefGrads(g, seed) ==
    RefGradSweep(g, RefValues(g), MaxNodeId(g),
                 [id \in 0..MaxNodeId(g) |-> IF id = g.root.id THEN seed ELSE R(0)])

\* backwards returned, having found values that forward had just computed
\* and gradients that were all zero.
BackwardsAfterForwardAndZero ==
    last.op = "backwards" /\ last.ok /\ last.fresh.valid /\ AllZero(before)

\* C4: after evaluate, zero_grads and one backward with seed g on a graph of
\* Add, Mul and Relu nodes, every Immediate's stored gradient is g times the
\* exact derivative of the output with respect to it.  Stated here for
\* outputs that are Add nodes, where the seed arrives unchanged, so that a
\* violation is one of the sweep itself and not of the seeding (C5).
C4_GradientCorrect ==
    (/\ BackwardsAfterForwardAndZero
     /\ OnlyAddMulRelu(before)
     /\ before.nodes[before.root.id].operation = "Add") =>
        \A id \in Reach(before) :
            IsImmediate(before.nodes, id) =>
                graph.data[id].gradient = RefGrads(before, last.arg)[id]

\* C5: after evaluate and zero_grads, a backward call with seed g leaves the
\* output node's own gradient equal to g, whatever the output's operation.
C5_SeedArrivesUnchanged ==
    (last.op = "backwards" /\ last.ok /\ AllZero(before)) =>
        graph.data[graph.root.id].gradient = last.arg

\* C6: backward fails on every graph that has a Sub, Div or Pow node on a
\* path from the output.
C6_UnsupportedIsFatal ==
    (last.op = "backwards" /\ OpsUsed(before) \ Differentiable # {}) => ~last.ok

\* C7: on a graph whose Operation nodes are all Add, Mul or Relu, a backward
\* call made after an evaluate returns.
C7_BackwardSucceeds ==
    (last.op = "backwards" /\ last.fresh.valid /\ OnlyAddMulRelu(before)) => last.ok

C9_SetInput ==
    last.op = "set_input" =>
        /\ last.ok = (last.id \in DOMAIN before.inputs)
        /\ last.id \in DOMAIN before.nodes => ~last.ok
        /\ last.id \notin DOMAIN before.nodes \cup DOMAIN before.inputs => ~last.ok
        /\ ~last.ok => graph = before
        /\ last.ok =>
              /\ GetNodeValue(graph, InputNode(last.id)) = Ret(graph, last.arg)
              /\ DOMAIN graph.inputs = DOMAIN before.inputs
              /\ \A i \in DOMAIN before.inputs \ {last.id} :
                    graph.inputs[i] = before.inputs[i]
              /\ graph.data = before.data
              /\ graph.nodes = before.nodes
              /\ graph.root = before.root

\* set_input changed one of two inputs, the other one holding a value that
\* was set before, on a graph that holds a nonzero gradient.
C9_Witness ==
    /\ last.op = "set_input" /\ last.ok
    /\ before.inputs[last.id] # last.arg
    /\ \E i \in DOMAIN before.inputs \ {last.id} : before.inputs[i] # R(0)
    /\ \E id \in DOMAIN before.data : before.data[id].gradient # R(0)

\* C10: a forward call made after another one, with no set_input and no
\* update_weights in between (any number of forward, backwards and
\* zero_grads calls may lie between), returns what that one returned.
C10_ForwardRepeatable ==
    (last.op = "forward" /\ last.fresh.valid) =>
        last.ok /\ last.value = last.fresh.value

\* forward was repeated after a backwards call had left nonzero gradients,
\* on a graph with an Immediate, and returned a nonzero value.
C10_Witness ==
    /\ last.op = "forward" /\ last.fresh.valid /\ last.value # R(0)
    /\ ~AllZero(before)
    /\ \E id \in Reach(before) : IsImmediate(before.nodes, id)

\* The value a new slot of node id is to hold: an Immediate's payload, and 0
\* for an Input or an Operation node.
Payload(g, id) == IF IsImmediate(g.nodes, id) THEN g.nodes[id].original_value ELSE R(0)

\* C11: right after make, before any call on the runnable graph, every node
\* of the graph has a Data slot whose value is the Immediate's payload (0 for
\* Input and Operation nodes) and whose gradient is 0.
C11_FreezeInitialises ==
    (phase = "run" /\ ops = 0) =>
        \A id \in DOMAIN graph.nodes \cup DOMAIN graph.inputs :
            /\ id \in DOMAIN graph.data
            /\ graph.data[id] = DataNew(Payload(graph, id))

\* C12: one update_weights call with learning rate lr replaces the value of
\* every Data slot by value - lr * gradient, with the gradient the slot held
\* when the call was made, and leaves every gradient, every input and every
\* node as it was; it is the step LearningRateOptimiser::optimise takes.
C12_GradientDescentStep ==
    last.op = "update_weights" =>
        /\ last.ok
        /\ DOMAIN graph.data = DOMAIN before.data
        /\ \A id \in DOMAIN before.data :
              /\ graph.data[id].value =
                    RSub(before.data[id].value, RMul(last.arg, before.data[id].gradient))
              /\ graph.data[id].gradient = before.data[id].gradient
        /\ graph.data = LearningRateOptimiseFn(LearningRateOptimiserNew(last.arg), before.data)
        /\ graph.inputs = before.inputs
        /\ graph.nodes = before.nodes
        /\ graph.root = before.root

\* update_weights ran on a graph with several slots and changed the value of
\* one that held a nonzero gradient, which it still holds.
C12_Witness ==
    /\ last.op = "update_weights"
    /\ Cardinality(DOMAIN before.data) >= 2
    /\ \E id \in DOMAIN before.data :
          /\ before.data[id].gradient # R(0)
          /\ graph.data[id].gradient # R(0)
          /\ graph.data[id].value # before.data[id].value

\* C13: an AdamOptimiser::optimise call handed a Data array whose length
\* differs from the num_params the optimiser was constructed with fails, and
\* leaves every slot of the array as it was.
C13_AdamSizeMismatchFatal ==
    (opt_last.op = "adam" /\ Len(opt_last.data) # Len(opt_last.self.m)) =>
        /\ ~opt_last.ok
        /\ params = opt_last.data

\* The value a fragment evaluates to, frozen as it is and with no input set.
ValueOf(frag) == ForwardFn(MakeFn(frag))

\* C14: a fragment-with-scalar division builds its Operation node with the
\* operands in the order written.  For `s / &fragment` the new node's left
\* operand is the Immediate holding s and its right operand the fragment's
\* root, and it evaluates to s divided by the fragment's value; `&fragment / s`
\* evaluates to the fragment's value divided by s.  (Stated for fragments
\* that evaluate, to a value other than 0.)
C14_ScalarOperandOrder ==
    LET res == written.result
        opd == ValueOf(written.operand)
    IN  (written.form # "none" /\ opd.ok /\ opd.value # R(0)) =>
            LET node == res.nodes[res.root.id]
            IN  /\ node.type = "Operation" /\ node.operation = "Div"
                /\ written.form = "s / f" =>
                      /\ IsImmediate(res.nodes, node.left_id.id)
                      /\ res.nodes[node.left_id.id].original_value = written.scalar
                      /\ node.right_id = written.operand.root
                      /\ ValueOf(res) = Ret(ValueOf(res).g, RDiv(written.scalar, opd.value))
                /\ written.form = "f / s" =>
                      /\ node.left_id = written.operand.root
                      /\ IsImmediate(res.nodes, node.right_id.id)
                      /\ res.nodes[node.right_id.id].original_value = written.scalar
                      /\ ValueOf(res) = Ret(ValueOf(res).g, RDiv(opd.value, written.scalar))

\* The Relu nodes on a path from the root.
ReluNodes(g) == {id \in Reach(g) : IsOperation(g.nodes, id) /\ g.nodes[id].operation = "Relu"}

\* C15: a backwards call that returns leaves the gradient of every Relu
\* node's right operand (the zero Immediate relu created) as it found it; so
\* when the gradients were all zero before the call, it is 0 afterwards.
C15_ReluRightUntouched ==
    (last.op = "backwards" /\ last.ok) =>
        \A id \in ReluNodes(before) :
            LET right == before.nodes[id].right_id.id
            IN  /\ graph.data[right].gradient = before.data[right].gradient
                /\ AllZero(before) => graph.data[right].gradient = R(0)

\* How often event e occurs in the log tr.
Count(tr, e) == Cardinality({i \in 1..Len(tr) : tr[i] = e})

\* The Operation nodes on a path from the root.
ReachedOps(g) == {id \in Reach(g) : IsOperation(g.nodes, id)}

\* C16: within one backwards call that returns, every Operation node on a
\* path from the root hands its gradient to each of its two operands exactly
\* once, and does so only after every node that uses it as an operand has
\* added its contribution to it, for each operand slot that refers to it.
C16_BackwardSweepOrder ==
    (last.op = "backwards" /\ last.ok) =>
        /\ \A p \in ReachedOps(before), side \in {"left", "right"} :
              Count(last.trace, <<"update", p, side>>) = 1
        /\ \A i \in 1..Len(last.trace) :
              \A use \in Uses(before, last.trace[i][2]) :
                  use[1] \in Reach(before) =>
                      \E j \in 1..(i - 1) : last.trace[j] = <<"update", use[1], use[2]>>

\* C17: during one forward call that returns, the value of every Operation
\* node on a path from the root is computed exactly once, however many
\* operand slots refer to that node.
C17_ComputedOnce ==
    (last.op = "forward" /\ last.ok) =>
        \A id \in ReachedOps(before) : Count(last.trace, <<"value", id>>) = 1

\* The graph with value v written into the slot of every Operation node.
Scribble(g, v) ==
    [g EXCEPT !.data = [id \in DOMAIN g.data |->
        IF IsOperation(g.nodes, id) THEN [g.data[id] EXCEPT !.value = v] ELSE g.data[id]]]

\* What an optimiser may have left in an Operation node's slot.
ScribbleVals == {R(0), R(5)}

\* C18: a forward call that returns reads every Immediate that has a slot
\* from the slot (where update_weights left its value) and not from its
\* construction-time payload, and leaves that value in place; it recomputes
\* the value of every Operation node on a path from the root from its
\* operands, so what the Operation slots held before the call, whatever an
\* update_weights wrote there, has no influence on what forward returns.
C18_WeightsPersist ==
    (last.op = "forward" /\ last.ok) =>
        /\ \A id \in Reach(before) :
              (IsImmediate(before.nodes, id) /\ id \in DOMAIN before.data) =>
                  /\ RefValues(before)[id].v = before.data[id].value
                  /\ graph.data[id].value = before.data[id].value
        /\ \A id \in ReachedOps(before) :
              graph.data[id].value = RefValues(before)[id].v
        /\ \A v \in ScribbleVals : ForwardFn(Scribble(before, v)).value = last.value

\* forward ran after an update_weights had moved an Immediate away from its
\* payload and had written into the root's slot a value that forward then
\* replaced, and returned a nonzero value.
C18_Witness ==
    /\ last.op = "forward" /\ last.ok /\ last.value # R(0)
    /\ \E id \in Reach(before) :
          /\ IsImmediate(before.nodes, id)
          /\ id \in DOMAIN before.data
          /\ before.data[id].value # before.nodes[id].original_value
    /\ IsOperation(before.nodes, before.root.id)
    /\ before.data[before.root.id].gradient # R(0)
    /\ before.data[before.root.id].value # graph.data[before.root.id].value

====
